---- MODULE Spec2Model ----
(***************************************************************************)
(* Model of scripts/update_data.py: the workbook -> JSON extraction        *)
(* pipeline (cell coercion, rating classification, sheet location, record  *)
(* building and the main() runner).                                        *)
(*                                                                         *)
(* A Python str is a sequence of characters; a character is a one-element  *)
(* string.  "ß" (U+00DF) is kept in the alphabet because str.upper() maps  *)
(* it to two characters ("SS"), which str.lower() does not undo.           *)
(***************************************************************************)
EXTENDS Integers, Sequences, FiniteSets, TLC

VARIABLES
    \* ---- cell-level calls (as_text, to_iso_date, normalise_rating)
    val,        \* the cell value handed to the function
    fn,         \* which function was called last ("none" before any call)
    res,        \* its result (a str, or Raised)
    prev,       \* the result of the call before, when res is a second pass
    \* ---- record building (build_risks, build_tqs)
    df,         \* the DataFrame handed to the builder
    built,      \* the builder's outcome: items or the ValueError
    \* ---- the runner (main)
    workbook,   \* source/project_dashboard.xlsx: exists, sheet names, sheets
    pc,         \* where main() is: idle, begun, risks_done, done, failed
    clock,      \* wall clock, in half minutes
    now_awst,   \* main's now_awst
    risk_sheet, \* main's risk_sheet
    tq_sheet,   \* main's tq_sheet
    risksFile,  \* data/risks.json: Absent or the payload it holds
    tqsFile,    \* data/tqs.json: Absent or the payload it holds
    err,        \* the exception main() ended with, NoError otherwise
    writes,     \* the write_json calls of the current run: path and time
    history,    \* per completed run: the workbook read and the files left
    runs        \* number of runs started

cellVars  == <<val, fn, res, prev>>
buildVars == <<df, built>>
runVars == <<workbook, pc, clock, now_awst, risk_sheet, tq_sheet,
             risksFile, tqsFile, err, writes, history, runs>>
vars == <<val, fn, res, prev, df, built, workbook, pc, clock, now_awst,
          risk_sheet, tq_sheet, risksFile, tqsFile, err, writes, history, runs>>

----------------------------------------------------------------------------
(* Bounds of the model. *)
MaxLen == 3          \* longest enumerated cell text
MaxRows == 2         \* most rows of an enumerated sheet
MaxClock == 3        \* last clock value (half minutes)
MaxRuns == 2         \* runs of main() in one behaviour

----------------------------------------------------------------------------
(* Python str primitives. *)

Uppers == <<"A","B","C","D","E","F","G","H","I","J","K","L","M",
            "N","O","P","Q","R","S","T","U","V","W","X","Y","Z">>
Lowers == <<"a","b","c","d","e","f","g","h","i","j","k","l","m",
            "n","o","p","q","r","s","t","u","v","w","x","y","z">>

IndexIn(c, tbl) ==
    IF \E i \in DOMAIN tbl : tbl[i] = c
    THEN CHOOSE i \in DOMAIN tbl : tbl[i] = c
    ELSE 0

\* str.lower() of one character: always a single character in this alphabet
\* ("ß" is already lower case).
LowerChar(c) ==
    IF IndexIn(c, Uppers) # 0 THEN <<Lowers[IndexIn(c, Uppers)]>> ELSE <<c>>

\* str.upper() of one character: "ß".upper() is "SS".
UpperChar(c) ==
    IF c = "ß" THEN <<"S", "S">>
    ELSE IF IndexIn(c, Lowers) # 0 THEN <<Uppers[IndexIn(c, Lowers)]>>
    ELSE <<c>>

RECURSIVE PyLower(_)
PyLower(s) == IF s = <<>> THEN <<>> ELSE LowerChar(Head(s)) \o PyLower(Tail(s))

RECURSIVE PyUpper(_)
PyUpper(s) == IF s = <<>> THEN <<>> ELSE UpperChar(Head(s)) \o PyUpper(Tail(s))

Whitespace == {" ", "\t"}

RECURSIVE LStrip(_)
LStrip(s) ==
    IF s # <<>> /\ Head(s) \in Whitespace THEN LStrip(Tail(s)) ELSE s

RECURSIVE RStrip(_)
RStrip(s) ==
    IF s # <<>> /\ s[Len(s)] \in Whitespace
    THEN RStrip(SubSeq(s, 1, Len(s) - 1))
    ELSE s

\* str.strip()
Strip(s) == RStrip(LStrip(s))

\* s[:1] and s[1:]
Slice1(s) == SubSeq(s, 1, IF Len(s) >= 1 THEN 1 ELSE 0)
SliceFrom1(s) == SubSeq(s, 2, Len(s))

Digits == <<"0","1","2","3","4","5","6","7","8","9">>

RECURSIVE StrNat(_)
\* str(n) for a non-negative int
StrNat(n) ==
    IF n < 10 THEN <<Digits[n + 1]>>
    ELSE StrNat(n \div 10) \o <<Digits[(n % 10) + 1]>>

RECURSIVE ZeroPad(_, _)
\* the "%02d" / "%04d" zero padding used by isoformat()
ZeroPad(s, w) == IF Len(s) >= w THEN s ELSE ZeroPad(<<"0">> \o s, w)

----------------------------------------------------------------------------
(* Cell values.  dtype=object keeps every cell as the Python object the    *)
(* reader produced; the kinds are the ones the code's tests tell apart.    *)
(*   None, NaN, NaT : the blank cells (val is None / pd.isna(val))         *)
(*   Text           : str                                                  *)
(*   Num            : int                                                  *)
(*   Timestamp      : pd.Timestamp                                         *)
(*   Datetime       : datetime.datetime (has .date())                      *)
(*   Date           : datetime.date (no .date attribute)                   *)
(*   DateErr        : an object with a .date whose call raises             *)
(*   Array          : a list-like; `if pd.isna(val)` raises ValueError     *)
(***************************************************************************)

NoDate == <<>>

Cell(k, s, n, dt) == [kind |-> k, s |-> s, n |-> n, dt |-> dt]

NoneCell      == Cell("None", <<>>, 0, NoDate)
NaNCell       == Cell("NaN", <<>>, 0, NoDate)
NaTCell       == Cell("NaT", <<>>, 0, NoDate)
TextCell(s)   == Cell("Text", s, 0, NoDate)
NumCell(n)    == Cell("Num", <<>>, n, NoDate)
\* dt = <<year, month, day, hour, minute>>
StampCell(dt) == Cell("Timestamp", <<>>, 0, dt)
DtCell(dt)    == Cell("Datetime", <<>>, 0, dt)
DateCell(dt)  == Cell("Date", <<>>, 0, <<dt[1], dt[2], dt[3], 0, 0>>)
DateErrCell(s) == Cell("DateErr", s, 0, NoDate)
ArrayCell(s)  == Cell("Array", s, 0, NoDate)

\* date.isoformat(): YYYY-MM-DD
IsoFormat(dt) ==
    ZeroPad(StrNat(dt[1]), 4) \o <<"-">> \o ZeroPad(StrNat(dt[2]), 2)
        \o <<"-">> \o ZeroPad(StrNat(dt[3]), 2)

\* str() of a datetime / Timestamp: "YYYY-MM-DD HH:MM:SS"
StrDateTime(dt) ==
    IsoFormat(dt) \o <<" ">> \o ZeroPad(StrNat(dt[4]), 2) \o <<":">>
        \o ZeroPad(StrNat(dt[5]), 2) \o <<":", "0", "0">>

\* str(val)
PyStr(v) ==
    CASE v.kind = "Text" -> v.s
      [] v.kind = "Num" -> StrNat(v.n)
      [] v.kind \in {"Timestamp", "Datetime"} -> StrDateTime(v.dt)
      [] v.kind = "Date" -> IsoFormat(v.dt)
      [] v.kind \in {"DateErr", "Array"} -> v.s
      [] v.kind = "None" -> <<"N","o","n","e">>
      [] v.kind = "NaN" -> <<"n","a","n">>
      [] v.kind = "NaT" -> <<"N","a","T">>

\* The outcome of the statement `if pd.isna(val):`
\*   "True" / "False", or "Raise" when the truth test raises.
PdIsNa(v) ==
    CASE v.kind \in {"None", "NaN", "NaT"} -> "True"
      [] v.kind = "Array" -> "Raise"
      [] OTHER -> "False"

\* The marker for a call that ended in an exception (not a str).  Both
\* cell functions swallow the exceptions of their checks, so no call of the
\* model yields it.
Raised == <<"<exception>">>

as_text(v) ==
    IF v.kind = "None" THEN <<>>
    ELSE IF PdIsNa(v) = "True" THEN <<>>      \* try: if pd.isna(val): return ""
    ELSE PyStr(v)                              \* except Exception: pass; str(val)

RedLabels   == { <<"r","e","d">>, <<"r">>, <<"h","i","g","h">> }
AmberLabels == { <<"a","m","b","e","r">>, <<"o","r","a","n","g","e">>, <<"a">>,
                 <<"m","e","d","i","u","m">>, <<"m","e","d">> }
GreenLabels == { <<"g","r","e","e","n">>, <<"g">>, <<"l","o","w">> }

Red   == <<"R","e","d">>
Amber == <<"A","m","b","e","r">>
Green == <<"G","r","e","e","n">>

\* the final return with the slice off by one: s[:1].upper() + s[2:].lower()
TitleFallback_skip(s) == PyUpper(Slice1(s)) \o PyLower(SubSeq(s, 3, Len(s)))

\* the final return of normalise_rating
TitleFallback(s) == PyUpper(Slice1(s)) \o PyLower(SliceFrom1(s))

\* normalise_rating with the labels matched against s instead of s.lower()
normalise_rating_cased(x) ==
    LET s == Strip(as_text(x)) IN
    IF s = <<>> THEN <<>>
    ELSE IF s \in RedLabels THEN Red
    ELSE IF s \in AmberLabels THEN Amber
    ELSE IF s \in GreenLabels THEN Green
    ELSE TitleFallback(s)

normalise_rating(x) ==
    LET s == Strip(as_text(x))
        s_low == PyLower(s)
    IN
    IF s = <<>> THEN <<>>
    ELSE IF s_low \in RedLabels THEN Red
    ELSE IF s_low \in AmberLabels THEN Amber
    ELSE IF s_low \in GreenLabels THEN Green
    ELSE TitleFallback(s)

\* The outcome of the `hasattr(val, "date")` block: the ISO date, or
\* "pass" when the attribute is absent or the call raised.
DateAttr(v) ==
    CASE v.kind \in {"Timestamp", "Datetime"} -> IsoFormat(v.dt)
      [] OTHER -> <<"<pass>">>

\* to_iso_date returning str(val) for date values (no .date() extraction)
to_iso_date_nodate(v) ==
    IF v.kind = "None" THEN <<>>
    ELSE IF PdIsNa(v) = "True" THEN <<>>
    ELSE Strip(as_text(v))

to_iso_date(v) ==
    IF v.kind = "None" THEN <<>>
    ELSE IF PdIsNa(v) = "True" THEN <<>>
    ELSE IF v.kind = "Timestamp" THEN IsoFormat(v.dt)
    ELSE IF DateAttr(v) # <<"<pass>">> THEN DateAttr(v)
    ELSE Strip(as_text(v))

----------------------------------------------------------------------------
(* The cell values the cell-level specification calls the functions on. *)

Alphabet == {"r", "R", "e", "D", "a", " ", "ß"}

\* the labels of the spec's examples, in their full length
SampleTexts ==
    { <<"r","e","d">>, <<"R","E","D">>, <<"H","i","g","h">>, <<"H","I","G","H">>,
      <<"A","M","B","E","R">>, <<"O","r","a","n","g","e">>, <<"A">>,
      <<"M","e","d","i","u","m">>, <<"m","e","d">>,
      <<"G","R","E","E","N">>, <<"g">>, <<"L","o","w">>,
      <<" ","a","m","b","e","r","\t">>, <<"\t","l","o","w"," ">>,
      <<"B","L","O","C","K","E","D">>, <<"b","l","o","c","k","e","d">>,
      <<"n","/","a">>, <<"R","e","d","s">>, <<"ß","x">>, <<" ","\t">>,
      <<"O","p","e","n"," ","I","T","E","M">> }

SampleDates ==
    { <<2024, 3, 5, 0, 0>>, <<2024, 3, 5, 23, 59>>, <<987, 12, 31, 7, 5>> }

\* val is one of the cell values the calls are made on
IsCellInput(v) ==
    \/ v \in { NoneCell, NaNCell, NaTCell }
    \/ \E k \in 0..MaxLen : \E s \in [1..k -> Alphabet] : v = TextCell(s)
    \/ \E s \in SampleTexts : v = TextCell(s)
    \/ \E n \in {0, 7, 42, 2024} : v = NumCell(n)
    \/ \E d \in SampleDates : v \in { DtCell(d), DateCell(d) }
    \* pd.Timestamp starts in the year 1677
    \/ \E d \in SampleDates : d[1] > 1677 /\ v = StampCell(d)
    \/ \E s \in { <<"r">>, <<" ","x"," ">> } : v = DateErrCell(s)
    \/ \E s \in { <<"[","]">>, <<"a">> } : v = ArrayCell(s)

----------------------------------------------------------------------------
(* Cell-level specification: one cell value, the functions applied to it. *)

BuildIdle == /\ df = [columns |-> <<>>, rows |-> <<>>]
             /\ built = [kind |-> "none"]

NoSheet == "<None>"
Absent == [lastUpdated |-> <<>>, items |-> <<>>, exists |-> FALSE]
NoError == [type |-> "none"]

RunIdle == /\ workbook = [exists |-> FALSE, names |-> <<>>, sheets |-> <<>>]
           /\ pc = "idle"
           /\ clock = 0
           /\ now_awst = <<>>
           /\ risk_sheet = NoSheet
           /\ tq_sheet = NoSheet
           /\ risksFile = Absent
           /\ tqsFile = Absent
           /\ err = NoError
           /\ writes = {}
           /\ history = <<>>
           /\ runs = 0

CellInit ==
    /\ IsCellInput(val)
    /\ fn = "none"
    /\ res = <<>>
    /\ prev = <<>>
    /\ BuildIdle
    /\ RunIdle

CallAsText ==
    /\ fn = "none"
    /\ fn' = "as_text"
    /\ res' = as_text(val)
    /\ UNCHANGED <<val, prev, buildVars, runVars>>

CallToIsoDate ==
    /\ fn = "none"
    /\ fn' = "to_iso_date"
    /\ res' = to_iso_date(val)
    /\ UNCHANGED <<val, prev, buildVars, runVars>>

CallNormaliseRating ==
    /\ fn = "none"
    /\ fn' = "normalise_rating"
    /\ res' = normalise_rating(val)
    /\ UNCHANGED <<val, prev, buildVars, runVars>>

\* normalise_rating applied to its own result
CallNormaliseAgain ==
    /\ fn = "normalise_rating"
    /\ fn' = "normalise_again"
    /\ prev' = res
    /\ res' = normalise_rating(TextCell(res))
    /\ UNCHANGED <<val, buildVars, runVars>>

CellNext ==
    \/ CallAsText
    \/ CallToIsoDate
    \/ CallNormaliseRating
    \/ CallNormaliseAgain

SpecCell == CellInit /\ [][CellNext]_vars

----------------------------------------------------------------------------
(* Vocabulary of the cell-level properties, stated without the code's      *)
(* helpers: trimming by positions, case-insensitive label matching         *)
(* character by character, and decimal decoding of a formatted field.      *)

BlankKinds == {"None", "NaN", "NaT"}
IsBlankCell(v) == v.kind \in BlankKinds

\* the string form of a non-blank cell
TextForm(v) == IF IsBlankCell(v) THEN <<>> ELSE PyStr(v)

SetMin(S) == CHOOSE x \in S : \A y \in S : x <= y
SetMax(S) == CHOOSE x \in S : \A y \in S : x >= y

Trimmed(s) ==
    LET solid == { i \in 1..Len(s) : s[i] \notin Whitespace } IN
    IF solid = {} THEN <<>> ELSE SubSeq(s, SetMin(solid), SetMax(solid))

SameLetter(c, l) ==
    \/ c = l
    \/ \E i \in DOMAIN Uppers : Uppers[i] = c /\ Lowers[i] = l

MatchesLabel(s, labels) ==
    \E l \in labels :
        /\ Len(l) = Len(s)
        /\ \A i \in 1..Len(s) : SameLetter(s[i], l[i])

Capitalised(s) ==
    UpperChar(s[1]) \o PyLower(SubSeq(s, 2, Len(s)))

RECURSIVE DecodeNat(_)
DecodeNat(s) ==
    IF s = <<>> THEN 0
    ELSE 10 * DecodeNat(SubSeq(s, 1, Len(s) - 1)) + (IndexIn(s[Len(s)], Digits) - 1)

IsIsoDateOf(s, dt) ==
    /\ Len(s) = 10
    /\ s[5] = "-" /\ s[8] = "-"
    /\ \A i \in {1, 2, 3, 4, 6, 7, 9, 10} : IndexIn(s[i], Digits) # 0
    /\ DecodeNat(SubSeq(s, 1, 4)) = dt[1]
    /\ DecodeNat(SubSeq(s, 6, 7)) = dt[2]
    /\ DecodeNat(SubSeq(s, 9, 10)) = dt[3]

DateKinds == {"Timestamp", "Datetime", "Date"}

\* C4: normalise_rating is a total classifier: a blank or whitespace-only
\* cell gives ""; a trimmed label that matches the red, amber or green set
\* case-insensitively gives "Red", "Amber" or "Green"; any other label gives
\* the trimmed text with its first character upper-cased and the remainder
\* lower-cased; the three sets are disjoint, so one branch applies; the call
\* never raises.
C4_RatingClassifier ==
    fn = "normalise_rating" =>
        LET t == Trimmed(TextForm(val))
            isRed == MatchesLabel(t, RedLabels)
            isAmber == MatchesLabel(t, AmberLabels)
            isGreen == MatchesLabel(t, GreenLabels)
        IN
        /\ res # Raised
        /\ RedLabels \cap AmberLabels = {}
        /\ RedLabels \cap GreenLabels = {}
        /\ AmberLabels \cap GreenLabels = {}
        /\ ~(isRed /\ isAmber) /\ ~(isRed /\ isGreen) /\ ~(isAmber /\ isGreen)
        /\ (t = <<>>) => res = <<>>
        /\ isRed => res = Red
        /\ isAmber => res = Amber
        /\ isGreen => res = Green
        /\ (t # <<>> /\ ~isRed /\ ~isAmber /\ ~isGreen) => res = Capitalised(t)

C4_Witness ==
    /\ fn = "normalise_rating"
    /\ val = TextCell(<<"B","L","O","C","K","E","D">>)
    /\ res = <<"B","l","o","c","k","e","d">>

\* C9: as_text and to_iso_date are total: as_text gives "" for a blank cell
\* and the untrimmed string form otherwise; to_iso_date gives "" for a blank
\* cell, YYYY-MM-DD of the calendar date for a date value whatever its time
\* of day, and the trimmed string form for anything else (also when the
\* date extraction fails); neither raises.
C9_CoercionTotal ==
    /\ fn = "as_text" =>
        /\ res # Raised
        /\ IsBlankCell(val) => res = <<>>
        /\ ~IsBlankCell(val) => res = PyStr(val)
    /\ fn = "to_iso_date" =>
        /\ res # Raised
        /\ IsBlankCell(val) => res = <<>>
        /\ val.kind \in DateKinds => IsIsoDateOf(res, val.dt)
        /\ (~IsBlankCell(val) /\ val.kind \notin DateKinds)
              => res = Trimmed(PyStr(val))

C9_Witness ==
    /\ fn = "to_iso_date"
    /\ val = StampCell(<<2024, 3, 5, 23, 59>>)
    /\ res = <<"2","0","2","4","-","0","3","-","0","5">>

\* C10 (as stated): normalise_rating(normalise_rating(x)) = normalise_rating(x)
\* for every cell value x.
C10_Idempotent ==
    fn = "normalise_again" => res = prev

CanonicalRatings == { <<>>, Red, Amber, Green }

\* the trimmed text is empty or starts with a character whose upper-case
\* form is one character
SingleUpperFirst(v) ==
    LET t == Trimmed(TextForm(v)) IN
    t = <<>> \/ Len(UpperChar(t[1])) = 1

\* C10 (amended): the canonical outputs "", "Red", "Amber", "Green" map to
\* themselves, a fallback output is never reclassified into Red/Amber/Green,
\* and a second pass leaves the result unchanged whenever the trimmed text
\* starts with a character whose upper-case form is a single character.
C10_IdempotentSingleUpper ==
    fn = "normalise_again" =>
        /\ prev \in CanonicalRatings => res = prev
        /\ prev \notin CanonicalRatings => res \notin CanonicalRatings
        /\ SingleUpperFirst(val) => res = prev

C10_Witness ==
    /\ fn = "normalise_again"
    /\ val = TextCell(<<"B","L","O","C","K","E","D">>)
    /\ prev = <<"B","l","o","c","k","e","d">>
    /\ res = prev

----------------------------------------------------------------------------
(* DataFrames: columns is the header list in sheet order, rows the rows in *)
(* sheet order, each row a function from the headers to cell values.       *)

RiskExpected == {"risk_id", "title", "status", "rating", "due_date",
                 "owner_role", "last_updated"}
TqExpected == {"tq_id", "title", "status"}

\* every header of the model, in the order sorted() gives
AllColumnsSorted == <<"due_date", "last_updated", "notes", "owner_role",
                      "rating", "risk_id", "status", "title", "tq_id">>

Range(seq) == { seq[i] : i \in DOMAIN seq }

\* sorted(S) for a set of headers
Sorted(S) == LET In(c) == c \in S IN SelectSeq(AllColumnsSorted, In)

\* row.get(c)
RowGet(row, c) == IF c \in DOMAIN row THEN row[c] ELSE NoneCell

\* DataFrame.dropna(how="all"): a row goes when every cell of it is NA
AllNa(row) == \A c \in DOMAIN row : PdIsNa(row[c]) = "True"

DropNaAll(rows) == LET Some(row) == ~AllNa(row) IN SelectSeq(rows, Some)

read_sheet_df(sheet) ==
    [columns |-> sheet.columns, rows |-> DropNaAll(sheet.rows)]

\* expected - set(df.columns) taken the other way round
MissingColumns_swapped(expected, columns) == Range(columns) \ expected

\* missing = expected - set(df.columns)
MissingColumns(expected, columns) == expected \ Range(columns)

\* the ValueError of a failed schema check
SchemaError(who, expected, columns) ==
    [kind |-> "error", fn |-> who, items |-> <<>>,
     missing |-> Sorted(MissingColumns(expected, columns)),
     found |-> columns]

BuiltItems(who, items) ==
    [kind |-> "items", fn |-> who, items |-> items,
     missing |-> <<>>, found |-> <<>>]

\* the skip test with `or` for `and`: a row needs both fields
KeepRow_both(id, title) == ~(id = <<>> \/ title = <<>>)

\* `if not risk_id and not title: continue`
KeepRow(id, title) == ~(id = <<>> /\ title = <<>>)

\* items.append(...) that drops a record whose id is already in the list
AppendItem_dedup(items, item) ==
    IF \E i \in DOMAIN items : items[i].id = item.id THEN items
    ELSE Append(items, item)

\* items.append(...)
AppendItem(items, item) == Append(items, item)

RiskRecord(row) ==
    [id |-> Strip(as_text(RowGet(row, "risk_id"))),
     description |-> Strip(as_text(RowGet(row, "title"))),
     status |-> Strip(as_text(RowGet(row, "status"))),
     rating |-> normalise_rating(RowGet(row, "rating")),
     ownerRole |-> Strip(as_text(RowGet(row, "owner_role"))),
     nextActionDate |-> to_iso_date(RowGet(row, "due_date")),
     lastUpdatedRow |-> to_iso_date(RowGet(row, "last_updated"))]

TqRecord(row) ==
    [id |-> Strip(as_text(RowGet(row, "tq_id"))),
     title |-> Strip(as_text(RowGet(row, "title"))),
     status |-> Strip(as_text(RowGet(row, "status")))]

RECURSIVE RiskLoop(_, _)
\* the `for _, row in df.iterrows()` loop of build_risks
RiskLoop(rows, items) ==
    IF rows = <<>> THEN items
    ELSE LET rec == RiskRecord(Head(rows)) IN
         IF KeepRow(rec.id, rec.description)
         THEN RiskLoop(Tail(rows), AppendItem(items, rec))
         ELSE RiskLoop(Tail(rows), items)

RECURSIVE TqLoop(_, _)
\* the `for _, row in df.iterrows()` loop of build_tqs
TqLoop(rows, items) ==
    IF rows = <<>> THEN items
    ELSE LET rec == TqRecord(Head(rows)) IN
         IF KeepRow(rec.id, rec.title)
         THEN TqLoop(Tail(rows), AppendItem(items, rec))
         ELSE TqLoop(Tail(rows), items)

build_risks(d) ==
    IF MissingColumns(RiskExpected, d.columns) # {}
    THEN SchemaError("build_risks", RiskExpected, d.columns)
    ELSE BuiltItems("build_risks", RiskLoop(d.rows, <<>>))

build_tqs(d) ==
    IF MissingColumns(TqExpected, d.columns) # {}
    THEN SchemaError("build_tqs", TqExpected, d.columns)
    ELSE BuiltItems("build_tqs", TqLoop(d.rows, <<>>))

----------------------------------------------------------------------------
(* The sheets the record-building specification enumerates. *)

RiskCols == <<"risk_id", "title", "status", "rating", "due_date",
              "owner_role", "last_updated">>
TqCols == <<"tq_id", "title", "status">>

Layouts ==
    { RiskCols,
      <<"notes">> \o RiskCols,
      <<"risk_id", "title", "status", "due_date", "owner_role", "last_updated">>,
      <<"title", "rating", "notes">>,
      TqCols,
      <<"status", "title", "tq_id", "notes">>,
      <<"tq_id", "title">> }

IdCells == { NaNCell, TextCell(<<" ">>), TextCell(<<"R","-","1">>) }
TitleCells == { NoneCell, TextCell(<<"\t"," ">>), TextCell(<<" ","T","x"," ">>) }
Profiles == { "populated", "blank" }

OtherCell(profile, c) ==
    IF profile = "blank" THEN NaNCell
    ELSE CASE c = "status" -> TextCell(<<"O","p","e","n"," ">>)
           [] c = "rating" -> TextCell(<<"H","i","g","h">>)
           [] c = "due_date" -> StampCell(<<2024, 6, 1, 23, 59>>)
           [] c = "owner_role" -> TextCell(<<"P","M">>)
           [] c = "last_updated" -> DtCell(<<2024, 5, 1, 0, 0>>)
           [] OTHER -> TextCell(<<"x">>)

MakeRow(columns, id, title, profile) ==
    [c \in Range(columns) |->
        CASE c \in {"risk_id", "tq_id"} -> id
          [] c = "title" -> title
          [] OTHER -> OtherCell(profile, c)]

RowsOf(columns) ==
    { MakeRow(columns, id, title, p) :
        id \in IdCells, title \in TitleCells, p \in Profiles }

\* d is one of the sheets the builders are run on
IsSheet(d) ==
    \E cols \in Layouts : \E k \in 0..MaxRows :
        \E rs \in [1..k -> RowsOf(cols)] :
            d = [columns |-> cols, rows |-> rs]

----------------------------------------------------------------------------
(* Record-building specification: a sheet is read, then handed to one of   *)
(* the builders.                                                           *)

CellIdle == /\ val = NoneCell
            /\ fn = "none"
            /\ res = <<>>
            /\ prev = <<>>

BuildInit ==
    /\ IsSheet(df)
    /\ built = [kind |-> "sheet"]
    /\ CellIdle
    /\ RunIdle

ReadSheetDf ==
    /\ built.kind = "sheet"
    /\ df' = read_sheet_df(df)
    /\ built' = [kind |-> "read"]
    /\ UNCHANGED <<cellVars, runVars>>

CallBuildRisks ==
    /\ built.kind = "read"
    /\ built' = build_risks(df)
    /\ UNCHANGED <<df, cellVars, runVars>>

CallBuildTqs ==
    /\ built.kind = "read"
    /\ built' = build_tqs(df)
    /\ UNCHANGED <<df, cellVars, runVars>>

BuildNext ==
    \/ ReadSheetDf
    \/ CallBuildRisks
    \/ CallBuildTqs

SpecBuild == BuildInit /\ [][BuildNext]_vars

----------------------------------------------------------------------------
(* Properties of the record builders. *)

IdColumn(who) == IF who = "build_risks" THEN "risk_id" ELSE "tq_id"
ItemTitle(who, item) ==
    IF who = "build_risks" THEN item.description ELSE item.title
MapRow(who, row) ==
    IF who = "build_risks" THEN RiskRecord(row) ELSE TqRecord(row)

\* the existence test on the trimmed, blank-coerced id and title of a row
RowExists(who, row) ==
    \/ Trimmed(TextForm(row[IdColumn(who)])) # <<>>
    \/ Trimmed(TextForm(row["title"])) # <<>>

\* C5: a row produces a record if and only if its mapped id or its mapped
\* description/title is non-empty after blank-coercion and trimming; hence
\* every emitted item has a non-empty id or a non-empty description/title.
C5_ExistenceInvariant ==
    built.kind = "items" =>
        LET who == built.fn
            Exists(row) == RowExists(who, row)
            kept == SelectSeq(df.rows, Exists)
        IN
        /\ Len(built.items) = Len(kept)
        /\ \A i \in DOMAIN built.items :
              /\ built.items[i].id = Trimmed(TextForm(kept[i][IdColumn(who)]))
              /\ ItemTitle(who, built.items[i]) = Trimmed(TextForm(kept[i]["title"]))
              /\ built.items[i].id # <<>> \/ ItemTitle(who, built.items[i]) # <<>>

\* a populated row with blank id and whitespace-only title is left out, and
\* the row with id "R-1" and no title is kept
C5_Witness ==
    /\ built.kind = "items"
    /\ built.fn = "build_risks"
    /\ Len(df.rows) = 2
    /\ df.rows[1]["risk_id"] = NaNCell
    /\ df.rows[1]["title"] = TextCell(<<"\t", " ">>)
    /\ df.rows[1]["status"] # NaNCell
    /\ df.rows[2]["risk_id"] = TextCell(<<"R","-","1">>)
    /\ df.rows[2]["title"] = NoneCell
    /\ Len(built.items) = 1
    /\ built.items[1].id = <<"R","-","1">>
    /\ built.items[1].description = <<>>

\* C6: the items are exactly the records of the kept rows, in sheet order,
\* and kept rows that share an id all appear, each unchanged.
C6_OrderNoDedup ==
    built.kind = "items" =>
        LET who == built.fn
            keptIdx == { i \in DOMAIN df.rows : RowExists(who, df.rows[i]) }
        IN
        /\ Len(built.items) = Cardinality(keptIdx)
        /\ \E pos \in [DOMAIN built.items -> keptIdx] :
              /\ \A a, b \in DOMAIN built.items : a < b => pos[a] < pos[b]
              /\ \A a \in DOMAIN built.items :
                    built.items[a] = MapRow(who, df.rows[pos[a]])

C6_Witness ==
    /\ built.kind = "items"
    /\ built.fn = "build_tqs"
    /\ Len(built.items) = 2
    /\ built.items[1].id = built.items[2].id
    /\ built.items[1].id # <<>>
    /\ built.items[1].title = <<>>
    /\ built.items[2].title = <<"T","x">>

ClaimRiskColumns == {"risk_id", "title", "status", "rating", "due_date",
                     "owner_role", "last_updated"}
ClaimTqColumns == {"tq_id", "title", "status"}

\* C7: a builder fails with the schema error if and only if a required
\* column is not among the sheet's headers; the error names exactly the
\* missing columns and the headers found, no record comes from a failing
\* sheet, and extra columns never cause a failure.
C7_SchemaCheck ==
    built.kind \in {"items", "error"} =>
        LET required == IF built.fn = "build_risks" THEN ClaimRiskColumns
                        ELSE ClaimTqColumns
            absent == { c \in required :
                          \A i \in DOMAIN df.columns : df.columns[i] # c }
        IN
        /\ built.kind = "error" <=> absent # {}
        /\ built.kind = "error" =>
              /\ Range(built.missing) = absent
              /\ Len(built.missing) = Cardinality(absent)
              /\ built.found = df.columns
              /\ built.items = <<>>

C7_Witness ==
    /\ built.kind = "error"
    /\ built.fn = "build_risks"
    /\ built.missing = <<"rating">>
    /\ built.found = <<"risk_id", "title", "status", "due_date",
                       "owner_role", "last_updated">>
    /\ Len(df.rows) = 2

----------------------------------------------------------------------------
(* The runner.  A data file is modelled by the payload json.dumps was      *)
(* given; write_text replaces the whole content.                           *)

RISK_SHEET_CANDIDATES == <<"Risks", "Risk">>
TQ_SHEET_CANDIDATES == <<"TQs", "TQ", "Tqs">>

\* a lookup that walks the workbook's sheets instead of the candidates
find_sheet_name_bysheets(sheet_names, candidates) ==
    IF \E i \in DOMAIN sheet_names : sheet_names[i] \in Range(candidates)
    THEN sheet_names[SetMin({ i \in DOMAIN sheet_names :
                                sheet_names[i] \in Range(candidates) })]
    ELSE NoSheet

RECURSIVE find_sheet_name(_, _)
find_sheet_name(sheet_names, candidates) ==
    IF candidates = <<>> THEN NoSheet
    ELSE IF Head(candidates) \in Range(sheet_names) THEN Head(candidates)
    ELSE find_sheet_name(sheet_names, Tail(candidates))

\* datetime.now(ZoneInfo("Australia/Perth")).strftime("%Y-%m-%d %H:%M AWST"):
\* the clock cut to the minute, with the zone label
FormatAwst(t) == <<t \div 2, "AWST">>

File(payload) ==
    [lastUpdated |-> payload.lastUpdated, items |-> payload.items, exists |-> TRUE]

\* a write that keeps the items already in the file
write_json_append(old, payload) ==
    File([lastUpdated |-> payload.lastUpdated,
          items |-> old.items \o payload.items])

\* path.write_text(json.dumps(payload, indent=2)): the old content goes
write_json(old, payload) == File(payload)

\* a payload stamped at the time of the write
TqsPayload_fresh(items) == [lastUpdated |-> FormatAwst(clock), items |-> items]

\* {"lastUpdated": now_awst, "items": risks_items}
RisksPayload(items) == [lastUpdated |-> now_awst, items |-> items]

\* {"lastUpdated": now_awst, "items": tqs_items}
TqsPayload(items) == [lastUpdated |-> now_awst, items |-> items]

FileNotFound == [type |-> "FileNotFoundError"]

NoSheetFound(what, candidates, sheet_names) ==
    [type |-> "ValueError", what |-> what, tried |-> candidates,
     found |-> sheet_names]

BuilderError(b) ==
    [type |-> "ValueError", what |-> b.fn, missing |-> b.missing,
     found |-> b.found]

----------------------------------------------------------------------------
(* The workbooks the runner is started on. *)

SheetOrder == <<"Risk", "Notes", "risks", "Risks", "Tqs", "TQ", "TQs">>

RiskParts == { {}, {"risks"}, {"Risk"}, {"Risks"}, {"Risk", "Risks"} }
TqParts == { {}, {"Tqs"}, {"TQ"}, {"TQ", "Tqs"}, {"TQs", "TQ", "Tqs"} }

Variants == {"first", "edited", "risk_schema", "tq_schema"}

\* the id written in a sheet's first row: its position in SheetOrder
SheetTag(name) == StrNat(IndexIn(name, SheetOrder))

SheetColumns(name, variant) ==
    IF name \in Range(RISK_SHEET_CANDIDATES)
    THEN IF variant = "risk_schema"
         THEN <<"risk_id", "title", "status", "due_date", "owner_role",
                "last_updated">>
         ELSE RiskCols
    ELSE IF name \in Range(TQ_SHEET_CANDIDATES)
    THEN IF variant = "tq_schema" THEN <<"tq_id", "title">> ELSE TqCols
    ELSE <<"notes">>

SheetRows(name, variant) ==
    LET cols == SheetColumns(name, variant)
        title == IF variant = "edited" THEN TextCell(<<"n","e","w">>)
                 ELSE TextCell(<<" ","T","x"," ">>)
    IN
    << MakeRow(cols, TextCell(<<"R">> \o SheetTag(name)), title, "populated"),
       MakeRow(cols, NaNCell, NaNCell, "blank"),
       MakeRow(cols, TextCell(<<" ">>), NoneCell, "populated") >>

MakeWorkbook(present, variant) ==
    LET In(n) == n \in present \cup {"Notes"}
        names == SelectSeq(SheetOrder, In)
    IN
    [exists |-> TRUE,
     names |-> names,
     sheets |-> [n \in Range(names) |->
                   [columns |-> SheetColumns(n, variant),
                    rows |-> SheetRows(n, variant)]]]

NoWorkbook == [exists |-> FALSE, names |-> <<>>, sheets |-> <<>>]

Workbooks ==
    { MakeWorkbook(r \cup q, v) : r \in RiskParts, q \in TqParts, v \in Variants }
    \cup { NoWorkbook }

\* a file left by an earlier run
StaleFile(tag) ==
    [lastUpdated |-> <<0, "AWST">>,
     items |-> << [id |-> <<"o","l","d">>, title |-> tag, status |-> <<>>] >>,
     exists |-> TRUE]

----------------------------------------------------------------------------
(* Runner specification. *)

Init ==
    /\ workbook \in Workbooks
    /\ pc = "idle"
    /\ clock = 0
    /\ now_awst = <<>>
    /\ risk_sheet = NoSheet
    /\ tq_sheet = NoSheet
    /\ \/ risksFile = Absent /\ tqsFile = Absent
       \/ risksFile = StaleFile(<<"r">>) /\ tqsFile = StaleFile(<<"t">>)
    /\ err = NoError
    /\ writes = {}
    /\ history = <<>>
    /\ runs = 0
    /\ CellIdle
    /\ BuildIdle

\* time passes
Tick ==
    /\ clock < MaxClock
    /\ clock' = clock + 1
    /\ UNCHANGED <<workbook, pc, now_awst, risk_sheet, tq_sheet, risksFile,
                   tqsFile, err, writes, history, runs, cellVars, buildVars>>

\* the workbook is edited between two runs: its rows change, or a broken
\* header row is repaired
EditWorkbook ==
    /\ pc \in {"done", "failed"}
    /\ workbook.exists
    /\ \E v \in {"first", "edited"} :
          /\ workbook' = MakeWorkbook(Range(workbook.names), v)
          /\ workbook' # workbook
    /\ UNCHANGED <<pc, clock, now_awst, risk_sheet, tq_sheet, risksFile,
                   tqsFile, err, writes, history, runs, cellVars, buildVars>>

\* main(), lines 142-147: the existence check, the open, the timestamp
Begin ==
    /\ pc \in {"idle", "done", "failed"}
    /\ runs < MaxRuns
    /\ runs' = runs + 1
    /\ writes' = {}
    /\ risk_sheet' = NoSheet
    /\ tq_sheet' = NoSheet
    /\ IF ~workbook.exists
       THEN /\ err' = FileNotFound
            /\ pc' = "failed"
            /\ UNCHANGED now_awst
       ELSE /\ err' = NoError
            /\ now_awst' = FormatAwst(clock)
            /\ pc' = "begun"
    /\ UNCHANGED <<workbook, clock, risksFile, tqsFile, history,
                   cellVars, buildVars>>

\* main(), lines 150-157: the risks dataset
RisksStage ==
    /\ pc = "begun"
    /\ LET found == find_sheet_name(workbook.names, RISK_SHEET_CANDIDATES) IN
       /\ risk_sheet' = found
       /\ IF found = NoSheet
          THEN /\ err' = NoSheetFound("risks", RISK_SHEET_CANDIDATES, workbook.names)
               /\ pc' = "failed"
               /\ UNCHANGED <<risksFile, writes>>
          ELSE LET b == build_risks(read_sheet_df(workbook.sheets[found])) IN
               IF b.kind = "error"
               THEN /\ err' = BuilderError(b)
                    /\ pc' = "failed"
                    /\ UNCHANGED <<risksFile, writes>>
               ELSE /\ risksFile' = write_json(risksFile, RisksPayload(b.items))
                    /\ writes' = writes \cup {[path |-> "risks.json", at |-> clock]}
                    /\ pc' = "risks_done"
                    /\ UNCHANGED err
    /\ UNCHANGED <<workbook, clock, now_awst, tq_sheet, tqsFile, history, runs,
                   cellVars, buildVars>>

\* main(), lines 160-167: the TQs dataset
TqsStage ==
    /\ pc = "risks_done"
    /\ LET found == find_sheet_name(workbook.names, TQ_SHEET_CANDIDATES) IN
       /\ tq_sheet' = found
       /\ IF found = NoSheet
          THEN /\ err' = NoSheetFound("tqs", TQ_SHEET_CANDIDATES, workbook.names)
               /\ pc' = "failed"
               /\ UNCHANGED <<tqsFile, writes, history>>
          ELSE LET b == build_tqs(read_sheet_df(workbook.sheets[found])) IN
               IF b.kind = "error"
               THEN /\ err' = BuilderError(b)
                    /\ pc' = "failed"
                    /\ UNCHANGED <<tqsFile, writes, history>>
               ELSE /\ tqsFile' = write_json(tqsFile, TqsPayload(b.items))
                    /\ writes' = writes \cup {[path |-> "tqs.json", at |-> clock]}
                    /\ pc' = "done"
                    /\ history' = Append(history,
                                      [workbook |-> workbook,
                                       risks |-> risksFile,
                                       tqs |-> tqsFile'])
                    /\ UNCHANGED err
    /\ UNCHANGED <<workbook, clock, now_awst, risk_sheet, risksFile, runs,
                   cellVars, buildVars>>

Next ==
    \/ Tick
    \/ EditWorkbook
    \/ Begin
    \/ RisksStage
    \/ TqsStage

Spec == Init /\ [][Next]_vars

----------------------------------------------------------------------------
(* Properties of the runner. *)

\* C1: a run that ends in a structural failure (workbook, sheet or schema)
\* has written no output file.
C1_NoPartialOutput ==
    pc = "failed" => writes = {}

\* C2: the timestamp is taken once, before any dataset is processed, and
\* every file written in the run carries it: after a successful run both
\* files hold the same lastUpdated, whatever time passed between the writes.
C2_SingleTimestamp ==
    /\ pc \in {"risks_done", "done"} => risksFile.lastUpdated = now_awst
    /\ pc = "done" => /\ tqsFile.lastUpdated = now_awst
                      /\ risksFile.lastUpdated = tqsFile.lastUpdated
    /\ pc \in {"begun", "risks_done", "done"} =>
          \A w \in writes : now_awst[1] <= FormatAwst(w.at)[1]

\* a successful run whose two writes fall in different minutes
C2_Witness ==
    /\ pc = "done"
    /\ \E w1, w2 \in writes :
          /\ w1.path = "risks.json"
          /\ w2.path = "tqs.json"
          /\ FormatAwst(w1.at) # FormatAwst(w2.at)
    /\ risksFile.lastUpdated = tqsFile.lastUpdated

FirstPresent(candidates, names) ==
    LET hits == { i \in DOMAIN candidates : candidates[i] \in names } IN
    IF hits = {} THEN NoSheet ELSE candidates[SetMin(hits)]

\* C3: the lookup returns the first candidate, in candidate order, that is
\* exactly a sheet name of the workbook; when none is, main() fails with the
\* error that carries the candidates tried and the sheet names found.
C3_FirstCandidate ==
    LET names == Range(workbook.names)
        risk == FirstPresent(<<"Risks", "Risk">>, names)
        tq == FirstPresent(<<"TQs", "TQ", "Tqs">>, names)
    IN
    /\ pc \in {"risks_done", "done"} => risk_sheet = risk /\ risk # NoSheet
    /\ pc = "done" => tq_sheet = tq /\ tq # NoSheet
    /\ (pc = "failed" /\ workbook.exists /\ risk = NoSheet) =>
          /\ risk_sheet = NoSheet
          /\ err = [type |-> "ValueError", what |-> "risks",
                    tried |-> <<"Risks", "Risk">>, found |-> workbook.names]
    /\ (pc = "failed" /\ workbook.exists /\ risk # NoSheet /\ tq = NoSheet
          /\ risk_sheet = risk /\ writes # {}) =>
          /\ tq_sheet = NoSheet
          /\ err = [type |-> "ValueError", what |-> "tqs",
                    tried |-> <<"TQs", "TQ", "Tqs">>, found |-> workbook.names]

\* candidates ["Risks", "Risk"] against a workbook that holds only "Risk"
C3_Witness ==
    /\ pc = "risks_done"
    /\ "Risk" \in Range(workbook.names)
    /\ "Risks" \notin Range(workbook.names)
    /\ risk_sheet = "Risk"

\* C8: two runs on the same workbook leave the same items in each file, in
\* the same order; the files differ in lastUpdated only, the later run
\* having replaced what the earlier one wrote.
C8_RunDeterminism ==
    \A i, j \in DOMAIN history :
        (i < j /\ history[i].workbook = history[j].workbook) =>
            /\ history[i].risks.items = history[j].risks.items
            /\ history[i].tqs.items = history[j].tqs.items
            /\ history[j].risks.exists /\ history[j].tqs.exists

C8_Witness ==
    /\ Len(history) = 2
    /\ history[1].workbook = history[2].workbook
    /\ history[1].risks.items = history[2].risks.items
    /\ history[1].tqs.items = history[2].tqs.items
    /\ Len(history[1].risks.items) = 1
    /\ history[1].risks.lastUpdated # history[2].risks.lastUpdated

====
